---- MODULE Spec2Model ----
(***************************************************************************)
(* Stormspotter collector, Azure AD enumeration                            *)
(* (stormspotter/collect/aad.py, stormspotter/collect/main.py).            *)
(*                                                                         *)
(* One run of the asyncio event loop: start_collect runs query_aad, which  *)
(* probes Microsoft Graph and gathers one AADObject.query_objects          *)
(* coroutine per object type; every AADObject owns a _TokenEvent whose     *)
(* background task refreshes the access token and sets / clears the event. *)
(* Each action is one step of one task between two awaits.                 *)
(***************************************************************************)
EXTENDS Integers, Sequences, FiniteSets, TLC

(* ---- bounds of the model ---- *)
MaxPages == 2       \* longest chain of pages of one listing
MaxItems == 1       \* most elements of one `value` array
MaxTargets == 1     \* most object ids in one backfill dictionary
MaxObjs == 2        \* most AADObject instances of one run

(* ---- constants of the program ---- *)
MARGIN == 15        \* asyncio.sleep(expires_on - now - 15)
RETRY == 5          \* asyncio.sleep(5)

\* AADObject.__subclasses__(), in definition order
Classes == <<"AADUser", "AADServicePrincipal", "AADApplication", "AADRole", "AADGroup">>
ClassSet == {Classes[i] : i \in 1..Len(Classes)}

\* the objects one run can construct
Objs == 1..MaxObjs

\* remaining lifetime (expires_on - int(time.time())) of a token when the
\* provider hands it out: already expired, expiring now, shorter than the
\* margin, longer than it
Lifetimes == {-1, 0, 1, MARGIN + 1}

(* ---- the directory (static data served by the REST API) ---- *)
\* a response body: an error payload, a bare object, or a page with n values
PageShapes ==
    {[kind |-> "error", n |-> 0], [kind |-> "object", n |-> 0]}
      \cup {[kind |-> "page", n |-> n] : n \in 0..MaxItems}
ValuePages == {p \in PageShapes : p.kind = "page"}
\* a listing: pages 1..n-1 are value pages carrying a cursor, page n is anything
Listings ==
    UNION {{l \in [1..n -> PageShapes] : \A k \in 1..(n - 1) : l[k] \in ValuePages}
             : n \in 1..MaxPages}
\* the `value` field of a sub-resource (owners / members) response
SubShapes == {"missing", "empty", "items"}

VARIABLES
    backfills,     \* argument of query_aad
    aad_types,     \* classes found by AADObject.__subclasses__()
    listing,       \* per object: the pages the API serves for its resource
    sub,           \* per object: shape of its sub-resource responses
    fp,            \* per object: records carry microsoftFirstParty
    idf,           \* per object: id fields its records and linked items carry
    provider,      \* remaining lifetimes of the tokens the credential hands out
    probeResp,     \* response of the probe request: "none", "ok", "error"
    qpc,           \* position of query_aad
    mpc,           \* position of start_collect / asyncio.run
    ctype,         \* per object: its class, "none" before construction
    cpc,           \* per object: position of query_objects
    user_url,      \* per object: target of the next page request
    pg,            \* per object: page whose response is being processed
    idx,           \* per object: element being processed (0: the whole body)
    pj,            \* per object: sub-resource request of parse in flight
    session,       \* per object: aiohttp.ClientSession
    err,           \* per object: exception that ended query_objects
    parsed,        \* per object: owners / members ids parse() has resolved
    rpc,           \* per object: position of token_refresh_task
    gate,          \* per object: the asyncio.Event flag of _token_event
    currentToken,  \* per object: _token_event.currentToken, with its remaining
                   \* lifetime ttl = expires_on - int(time.time())
    timer,         \* per object: seconds left of the pending asyncio.sleep
    lastReq,       \* per object: the last HTTP request it issued
    reqs,          \* per object: targets of the page requests issued
    sink,          \* per class: records written to <class>.sqlite
    aad_results,   \* ctx._aad_results
    summary        \* what gen_results_tables printed

inputs == <<backfills, aad_types, listing, sub, fp, idf, provider>>
orch == <<probeResp, qpc, mpc, summary>>
crawl == <<cpc, user_url, pg, idx, pj, session, err, parsed>>
refresh == <<rpc, gate, currentToken, timer>>
out == <<sink, aad_results>>
vars == <<inputs, orch, ctype, crawl, refresh, lastReq, reqs, out>>

(* ---- URLs and responses ---- *)
InitialUrl == <<"resource", 0>>
CursorUrl(k) == <<"nextLink", k>>       \* the cursor page k returns
NoLink == <<"absent", 0>>
AttributeErr == <<"AttributeError", 0>>

\* page a request target denotes
PageOf(u) == IF u = InitialUrl THEN 1 ELSE IF u[1] = "nextLink" THEN u[2] + 1 ELSE 0

\* record i of page k; i = 0 is the response body itself
Rec(k, i) == <<k, i>>

\* the JSON body the API returns for a page request of object c
Respond(c, u) ==
    LET k == PageOf(u) IN
    IF k \in 1..Len(listing[c])
    THEN [error |-> listing[c][k].kind = "error",
          hasValue |-> listing[c][k].kind = "page",
          value |-> [i \in 1..listing[c][k].n |-> Rec(k, i)],
          nextLink |-> IF listing[c][k].kind = "page" /\ k < Len(listing[c])
                       THEN CursorUrl(k) ELSE NoLink]
    ELSE [error |-> TRUE, hasValue |-> FALSE, value |-> <<>>, nextLink |-> NoLink]

\* the payload is looked up under another key and never found
HasODataError_wrongKey(response) == FALSE

\* "odata.error" in response
HasODataError(response) == response.error

\* response.get("value"): truthy only for a non-empty array
GetValue(response) == response.hasValue /\ Len(response.value) > 0

\* "odata.nextLink" in response
HasNextLink(response) == response.nextLink # NoLink

\* f"{self.base_url}/{self.tenant_id}/{response['odata.nextLink']}":
\* AADObject has no attribute tenant_id, the expression raises AttributeError
NextLinkUrl(response) == AttributeErr

\* value.get("microsoftFirstParty") of the record being parsed; the body of a
\* page response has no such field
FirstParty(c, k, i) ==
    fp[c] /\ ~(i = 0 /\ k \in 1..Len(listing[c]) /\ listing[c][k].kind = "page")

\* the sub-resources parse() expands, in order
Expands(cls, firstParty) ==
    CASE cls = "AADUser" -> <<>>
      [] cls = "AADServicePrincipal" -> IF firstParty THEN <<>> ELSE <<"owners">>
      [] cls = "AADApplication" -> <<"owners">>
      [] cls = "AADRole" -> <<"members">>
      [] cls = "AADGroup" -> <<"members", "owners">>
      [] OTHER -> <<>>

\* owners["value"] raises KeyError when the field is missing; .get("value") does not
SubscriptRaises(cls, shape) ==
    cls \in {"AADServicePrincipal", "AADApplication"} /\ shape = "missing"

\* the id fields a directory object can carry: the legacy one, the current
\* one, or both; the body of a page response carries neither
IdFields == {"objectId", "id", "both"}

\* the id fields of the record being parsed
RecordFields(c, k, i) ==
    IF i = 0 /\ k \in 1..Len(listing[c]) /\ listing[c][k].kind = "page"
    THEN "neither" ELSE idf[c]

\* x.get("objectId") or x.get("id"): the field whose value is used
GetId(fields) ==
    IF fields \in {"objectId", "both"} THEN "objectId"
    ELSE IF fields = "id" THEN "id" ELSE "None"

\* the resource_id parse() passes to expand(): AADRole.parse reads
\* value.get("objectId") alone, the other variants fall back to "id"
ResolveId(cls, fields) ==
    IF cls = "AADRole"
    THEN IF fields \in {"objectId", "both"} THEN "objectId" ELSE "None"
    ELSE GetId(fields)

\* the ids read off a sub-resource response: one linked item when it has items
LinkedIds(shape, fields) == IF shape = "items" THEN <<GetId(fields)>> ELSE <<>>

\* a field parse() has not assigned
Absent == <<"absent">>
NoParse == [owners |-> Absent, members |-> Absent]

\* parse() before its first expand: a first-party service principal gets
\* value["owners"] = [] at once
StartParse(cls, firstParty) ==
    IF cls = "AADServicePrincipal" /\ firstParty
    THEN [NoParse EXCEPT !.owners = <<>>] ELSE NoParse

NoReq == [kind |-> "none", expired |-> FALSE, gate |-> FALSE, rid |-> "-"]
NoToken == [set |-> FALSE, ttl |-> 0]


(* ---- inputs of a run ---- *)
NoBackfills == [on |-> FALSE, User |-> 0, Group |-> 0, ServicePrincipal |-> 0]
\* a backfill dictionary, by the number of object ids of each list
BackfillDicts ==
    {b \in [on : {TRUE}, User : 0..MaxTargets, Group : 0..MaxTargets,
            ServicePrincipal : 0..MaxTargets] :
        b.User + b.Group + b.ServicePrincipal <= MaxTargets
        /\ b.User + b.Group + b.ServicePrincipal <= MaxObjs}
ClassIndex(cls) == CHOOSE i \in 1..Len(Classes) : Classes[i] = cls
\* registries of n classes, in definition order
Registries(n) ==
    {r \in [1..n -> ClassSet] :
       \A i \in 1..(n - 1) : ClassIndex(r[i]) < ClassIndex(r[i + 1])}

\* chain(User ids, Group ids, ServicePrincipal ids): the class of each target
BackfillClasses(b) ==
    [i \in 1..(b.User + b.Group + b.ServicePrincipal) |->
        IF i <= b.User THEN "AADUser"
        ELSE IF i <= b.User + b.Group THEN "AADGroup" ELSE "AADServicePrincipal"]

\* `if backfills:`
Truthy(b) == b.on

\* the classes of the objects the run constructs
Targets == IF Truthy(backfills) THEN BackfillClasses(backfills) ELSE aad_types

InitRun(bs, regs, ls, ids, lives) ==
    /\ backfills \in bs
    /\ provider = lives
    /\ aad_types \in (IF Truthy(backfills) THEN {Classes} ELSE regs)
    /\ LET n == IF Truthy(backfills) THEN 0 ELSE Len(aad_types) IN
       \E l \in [1..n -> ls], s \in [1..n -> SubShapes], f \in [1..n -> BOOLEAN],
          d \in [1..n -> ids] :
          /\ idf = [c \in Objs |->
                      IF c <= n /\ aad_types[c] # "AADUser" THEN d[c] ELSE "both"]
          /\ listing = [c \in Objs |-> IF c <= n THEN l[c] ELSE <<>>]
          /\ sub = [c \in Objs |->
                      IF c <= n /\ aad_types[c] # "AADUser" THEN s[c] ELSE "missing"]
          /\ fp = [c \in Objs |->
                     IF c <= n /\ aad_types[c] = "AADServicePrincipal" THEN f[c]
                     ELSE FALSE]
    /\ probeResp = "none"
    /\ qpc = "token"
    /\ mpc = "wait"
    /\ summary = [printed |-> FALSE, results |-> {}]
    /\ ctype = [c \in Objs |-> "none"]
    /\ cpc = [c \in Objs |-> "none"]
    /\ user_url = [c \in Objs |-> InitialUrl]
    /\ pg = [c \in Objs |-> 0]
    /\ idx = [c \in Objs |-> 0]
    /\ pj = [c \in Objs |-> 0]
    /\ session = [c \in Objs |-> "none"]
    /\ err = [c \in Objs |-> "none"]
    /\ parsed = [c \in Objs |-> NoParse]
    /\ rpc = [c \in Objs |-> "none"]
    /\ gate = [c \in Objs |-> FALSE]
    /\ currentToken = [c \in Objs |-> NoToken]
    /\ timer = [c \in Objs |-> 0]
    /\ lastReq = [c \in Objs |-> NoReq]
    /\ reqs = [c \in Objs |-> <<>>]
    /\ sink = [cls \in ClassSet |-> <<>>]
    /\ aad_results = {}

\* a run over one registered class, or over a backfill dictionary
Init ==
    InitRun({NoBackfills} \cup BackfillDicts, Registries(1), Listings, {"both"},
            Lifetimes)

(* ---- _TokenEvent._get_new_token_for_aad_enum ---- *)
\* the sleep lasts until the expiry, the margin is left out
SleepDelay_noMargin(ttl) == IF ttl > 0 THEN ttl ELSE 0

\* asyncio.sleep(self.currentToken.expires_on - now - 15), from the remaining
\* lifetime; a delay of zero or less is a sleep of zero
SleepDelay(ttl) == IF ttl - MARGIN > 0 THEN ttl - MARGIN ELSE 0

\* every token counts as expired, the retry loop is never left
StillExpired_always(ttl) == TRUE

\* while self.currentToken.expires_on < int(time.time())
StillExpired(ttl) == ttl < 0

Sleeping(c) == rpc[c] \in {"sleep38", "sleep48"}

\* the task runs for the first time and calls get_token (line 31)
R_Start(c) ==
    /\ rpc[c] = "new"
    /\ rpc' = [rpc EXCEPT ![c] = "get31"]
    /\ UNCHANGED <<inputs, orch, ctype, crawl, gate, currentToken, timer,
                   lastReq, reqs, out>>

\* get_token raises: the task ends with the exception, nobody awaits it
R_TokenFails(c) ==
    /\ rpc[c] \in {"get31", "get46", "get49"}
    /\ rpc' = [rpc EXCEPT ![c] = "dead"]
    /\ UNCHANGED <<inputs, orch, ctype, crawl, gate, currentToken, timer,
                   lastReq, reqs, out>>

\* lines 31-38: the token arrives, the event is set, the task sleeps
R_Token31(c) ==
    /\ rpc[c] = "get31"
    /\ \E life \in provider :
         /\ currentToken' = [currentToken EXCEPT ![c] = [set |-> TRUE, ttl |-> life]]
         /\ timer' = [timer EXCEPT ![c] = SleepDelay(life)]
    /\ gate' = [gate EXCEPT ![c] = TRUE]
    /\ rpc' = [rpc EXCEPT ![c] = "sleep38"]
    /\ UNCHANGED <<inputs, orch, ctype, crawl, lastReq, reqs, out>>

\* lines 41-46: the sleep ends, the event is cleared, get_token is called.
\* A crawler the set() woke is ahead of this task in the loop's ready queue.
R_Wake38(c) ==
    /\ rpc[c] = "sleep38"
    /\ timer[c] = 0
    /\ cpc[c] # "wait"
    /\ gate' = [gate EXCEPT ![c] = FALSE]
    /\ rpc' = [rpc EXCEPT ![c] = "get46"]
    /\ UNCHANGED <<inputs, orch, ctype, crawl, currentToken, timer, lastReq, reqs, out>>

\* lines 46-49: a token arrives in the renewal; while it is expired sleep 5 s
\* and ask again, otherwise go round the outer loop to line 31
R_TokenRenew(c) ==
    /\ rpc[c] \in {"get46", "get49"}
    /\ \E life \in provider :
         /\ currentToken' = [currentToken EXCEPT ![c] = [set |-> TRUE, ttl |-> life]]
         /\ IF StillExpired(life)
            THEN /\ rpc' = [rpc EXCEPT ![c] = "sleep48"]
                 /\ timer' = [timer EXCEPT ![c] = RETRY]
            ELSE /\ rpc' = [rpc EXCEPT ![c] = "get31"]
                 /\ timer' = timer
    /\ UNCHANGED <<inputs, orch, ctype, crawl, gate, lastReq, reqs, out>>

\* line 49: the retry sleep ends, get_token is called again
R_Wake48(c) ==
    /\ rpc[c] = "sleep48"
    /\ timer[c] = 0
    /\ rpc' = [rpc EXCEPT ![c] = "get49"]
    /\ UNCHANGED <<inputs, orch, ctype, crawl, gate, currentToken, timer, lastReq,
                   reqs, out>>

\* the cancellation request is lost, the task runs on
Cancelled_ignored(r) == r

\* token_refresh_task.cancel(): a task that already ended stays as it is
Cancelled(r) == IF r \in {"none", "dead"} THEN r ELSE "cancelled"


(* ---- AADObject.expand, AADObject.query_objects, the parse() variants ---- *)
\* headers = {"Authorization": f"Bearer {self._token_event.currentToken.token}"}
\* followed by session.get: the request as it leaves, with whether the token in
\* its header has expired (expires_on <= now) and whether the event is set
Request(c, kind, rid) ==
    [kind |-> kind, expired |-> currentToken[c].ttl <= 0, gate |-> gate[c],
     rid |-> rid]

\* parse(value) up to its first await: the first expand() request, which does
\* not wait for the event, or straight on to sqlite_writer
BeginParse(c, k, i) ==
    IF Expands(ctype[c], FirstParty(c, k, i)) = <<>>
    THEN /\ cpc' = [cpc EXCEPT ![c] = "write"]
         /\ pj' = [pj EXCEPT ![c] = 0]
         /\ parsed' = [parsed EXCEPT ![c] = StartParse(ctype[c], FirstParty(c, k, i))]
         /\ lastReq' = lastReq
    ELSE /\ cpc' = [cpc EXCEPT ![c] = "expand"]
         /\ pj' = [pj EXCEPT ![c] = 1]
         /\ parsed' = [parsed EXCEPT ![c] = StartParse(ctype[c], FirstParty(c, k, i))]
         /\ lastReq' = [lastReq EXCEPT ![c] =
                           Request(c, "sub", ResolveId(ctype[c], RecordFields(c, k, i)))]

\* top of `while next_link`: await self._token_event.wait() returns at once
\* when the event is set, then the page request leaves
LoopHead(c, u) ==
    IF gate[c]
    THEN /\ cpc' = [cpc EXCEPT ![c] = "fetch"]
         /\ lastReq' = [lastReq EXCEPT ![c] = Request(c, "page", "-")]
         /\ reqs' = [reqs EXCEPT ![c] = Append(@, u)]
    ELSE /\ cpc' = [cpc EXCEPT ![c] = "wait"]
         /\ lastReq' = lastReq
         /\ reqs' = reqs

\* lines 76-93: the session is opened, the first target is built
Q_Start(c) ==
    /\ cpc[c] = "start"
    /\ session' = [session EXCEPT ![c] = "open"]
    /\ user_url' = [user_url EXCEPT ![c] = InitialUrl]
    /\ LoopHead(c, InitialUrl)
    /\ UNCHANGED <<inputs, orch, ctype, pg, idx, pj, err, parsed, refresh, out>>

\* lines 93-98: the event is set, wait() returns, the page request leaves
Q_WaitReturn(c) ==
    /\ cpc[c] = "wait"
    /\ gate[c]
    /\ LoopHead(c, user_url[c])
    /\ UNCHANGED <<inputs, orch, ctype, user_url, pg, idx, pj, session, err,
                   parsed, refresh, out>>

\* lines 99-106, 118: the body arrives; error payload, value array or single object
Q_PageResponse(c) ==
    /\ cpc[c] = "fetch"
    /\ LET response == Respond(c, user_url[c])
           k == PageOf(user_url[c])
           i == IF GetValue(response) THEN 1 ELSE 0
       IN IF HasODataError(response)
          THEN /\ cpc' = [cpc EXCEPT ![c] = "failed"]
               /\ err' = [err EXCEPT ![c] = "Exception"]
               /\ UNCHANGED <<pg, idx, pj, parsed, lastReq>>
          ELSE /\ pg' = [pg EXCEPT ![c] = k]
               /\ idx' = [idx EXCEPT ![c] = i]
               /\ BeginParse(c, k, i)
               /\ err' = err
    /\ UNCHANGED <<inputs, orch, ctype, user_url, session, refresh, reqs, out>>

\* lines 74, 148-219: a sub-resource body arrives; parse reads its value and
\* expands the next sub-resource or returns
Q_ExpandResponse(c) ==
    /\ cpc[c] = "expand"
    /\ LET props == Expands(ctype[c], FirstParty(c, pg[c], idx[c]))
           ids == LinkedIds(sub[c], idf[c])
       IN IF SubscriptRaises(ctype[c], sub[c])
          THEN /\ cpc' = [cpc EXCEPT ![c] = "failed"]
               /\ err' = [err EXCEPT ![c] = "KeyError"]
               /\ UNCHANGED <<pj, parsed, lastReq>>
          ELSE IF pj[c] < Len(props)
          THEN /\ pj' = [pj EXCEPT ![c] = @ + 1]
               /\ parsed' = [parsed EXCEPT ![c][props[pj[c]]] = ids]
               /\ lastReq' = [lastReq EXCEPT ![c] =
                                 Request(c, "sub",
                                         ResolveId(ctype[c],
                                                   RecordFields(c, pg[c], idx[c])))]
               /\ UNCHANGED <<cpc, err>>
          ELSE /\ cpc' = [cpc EXCEPT ![c] = "write"]
               /\ pj' = [pj EXCEPT ![c] = 0]
               /\ parsed' = [parsed EXCEPT ![c][props[pj[c]]] = ids]
               /\ UNCHANGED <<err, lastReq>>
    /\ UNCHANGED <<inputs, orch, ctype, user_url, pg, idx, session, refresh,
                   reqs, out>>

\* the summary keeps the class written last only
Counted_replaced(results, cls) == {cls}

\* self.ctx._aad_results.update([self.__class__.__name__]): a Counter, of
\* which the summary shows the keys
Counted(results, cls) == results \cup {cls}

\* lines 107-115, 119-125: sqlite_writer returns, the class is counted, then
\* the next element, the next page, or the end of the loop
Q_Written(c) ==
    /\ cpc[c] = "write"
    /\ sink' = [sink EXCEPT ![ctype[c]] = Append(@, Rec(pg[c], idx[c]))]
    /\ aad_results' = Counted(aad_results, ctype[c])
    /\ LET response == Respond(c, user_url[c]) IN
       IF idx[c] # 0 /\ idx[c] < Len(response.value)
       THEN /\ idx' = [idx EXCEPT ![c] = @ + 1]
            /\ BeginParse(c, pg[c], idx[c] + 1)
            /\ UNCHANGED <<user_url, err, reqs>>
       ELSE IF idx[c] # 0 /\ HasNextLink(response)
       THEN IF NextLinkUrl(response) = AttributeErr
            THEN /\ cpc' = [cpc EXCEPT ![c] = "failed"]
                 /\ err' = [err EXCEPT ![c] = "AttributeError"]
                 /\ UNCHANGED <<user_url, idx, pj, parsed, lastReq, reqs>>
            ELSE /\ user_url' = [user_url EXCEPT ![c] = NextLinkUrl(response)]
                 /\ LoopHead(c, NextLinkUrl(response))
                 /\ UNCHANGED <<idx, pj, err, parsed>>
       ELSE /\ cpc' = [cpc EXCEPT ![c] = "closing"]
            /\ UNCHANGED <<user_url, idx, pj, err, parsed, lastReq, reqs>>
    /\ UNCHANGED <<inputs, orch, ctype, pg, session, refresh>>

\* lines 128-129: the session is closed, the refresh task cancelled
Q_Closed(c) ==
    /\ cpc[c] = "closing"
    /\ session' = [session EXCEPT ![c] = "closed"]
    /\ rpc' = [rpc EXCEPT ![c] = Cancelled(@)]
    /\ timer' = [timer EXCEPT ![c] = 0]
    /\ cpc' = [cpc EXCEPT ![c] = "done"]
    /\ UNCHANGED <<inputs, orch, ctype, user_url, pg, idx, pj, err, parsed, gate,
                   currentToken, lastReq, reqs, out>>

(* ---- query_aad ---- *)
\* line 228: the token for the probe arrives
O_Token ==
    /\ qpc = "token"
    /\ qpc' = "probe"
    /\ UNCHANGED <<inputs, probeResp, mpc, summary, ctype, crawl, refresh,
                   lastReq, reqs, out>>

\* line 228: get_token raises, query_aad ends with the exception
O_TokenFails ==
    /\ qpc = "token"
    /\ qpc' = "raised"
    /\ UNCHANGED <<inputs, probeResp, mpc, summary, ctype, crawl, refresh,
                   lastReq, reqs, out>>

\* the body of the probe response
ProbeBody(r) ==
    [error |-> r = "error", hasValue |-> r = "ok", value |-> <<>>, nextLink |-> NoLink]

\* asyncio.gather(list(...)): a list is no awaitable, gather raises TypeError
\* and none of the coroutines of the list is ever scheduled
GatherStarts(backfilling) == ~backfilling

\* lines 237-271: the probe response arrives; on an error payload log and
\* return, otherwise construct the objects (each creates its refresh task) and
\* gather their query_objects coroutines
O_ProbeResponse ==
    /\ qpc = "probe"
    /\ \E r \in {"ok", "error"} :
         /\ probeResp' = r
         /\ IF HasODataError(ProbeBody(r))
            THEN /\ qpc' = "returned"
                 /\ UNCHANGED <<ctype, cpc, rpc>>
            ELSE /\ ctype' = [c \in Objs |->
                                IF c <= Len(Targets) THEN Targets[c] ELSE "none"]
                 /\ rpc' = [c \in Objs |-> IF c <= Len(Targets) THEN "new" ELSE "none"]
                 /\ cpc' = [c \in Objs |->
                              IF c > Len(Targets) THEN "none"
                              ELSE IF GatherStarts(Truthy(backfills)) THEN "start"
                              ELSE "created"]
                 /\ qpc' = IF GatherStarts(Truthy(backfills)) THEN "gather" ELSE "raised"
    /\ UNCHANGED <<inputs, mpc, summary, user_url, pg, idx, pj, session, err,
                   parsed, gate, currentToken, timer, lastReq, reqs, out>>

Launched == {c \in Objs : cpc[c] \notin {"none", "created"}}

\* gather: every query_objects returned
O_GatherDone ==
    /\ qpc = "gather"
    /\ \A c \in Launched : cpc[c] = "done"
    /\ qpc' = "returned"
    /\ UNCHANGED <<inputs, probeResp, mpc, summary, ctype, crawl, refresh,
                   lastReq, reqs, out>>

\* gather: the first exception of a query_objects is raised in query_aad; the
\* other coroutines are left running
O_GatherRaises ==
    /\ qpc = "gather"
    /\ \E c \in Launched : cpc[c] = "failed"
    /\ qpc' = "raised"
    /\ UNCHANGED <<inputs, probeResp, mpc, summary, ctype, crawl, refresh,
                   lastReq, reqs, out>>

(* ---- start_collect and asyncio.run ---- *)
\* main.py lines 39-42: asyncio.wait returns when the query_aad task ended
M_WaitReturns ==
    /\ mpc = "wait"
    /\ qpc \in {"returned", "raised"}
    /\ mpc' = "close"
    /\ UNCHANGED <<inputs, probeResp, qpc, summary, ctype, crawl, refresh,
                   lastReq, reqs, out>>

\* a task asyncio.run cancels when start_collect returned
Stopped(p) == IF p \in {"none", "created", "done", "failed"} THEN p ELSE "cancelled"

\* main.py lines 45, 55: the results are printed, start_collect returns and
\* asyncio.run cancels every task that is still pending
M_Finish ==
    /\ mpc = "close"
    /\ summary' = [printed |-> TRUE, results |-> aad_results]
    /\ mpc' = "exit"
    /\ cpc' = [c \in Objs |-> Stopped(cpc[c])]
    /\ rpc' = [c \in Objs |-> Cancelled(rpc[c])]
    /\ timer' = [c \in Objs |-> 0]
    /\ UNCHANGED <<inputs, probeResp, qpc, ctype, user_url, pg, idx, pj,
                   session, err, parsed, gate, currentToken, lastReq, reqs, out>>

(* ---- the clock ---- *)
\* a second passes: every token is a second nearer its expiry (one that has
\* expired stays expired) and every pending sleep a second shorter; a sleep
\* that is over ends before the clock moves on
Tick ==
    /\ mpc # "exit"
    /\ \A c \in Objs : Sleeping(c) => timer[c] > 0
    /\ currentToken' = [c \in Objs |->
                          IF currentToken[c].set /\ currentToken[c].ttl >= 0
                          THEN [currentToken[c] EXCEPT !.ttl = @ - 1]
                          ELSE currentToken[c]]
    /\ timer' = [c \in Objs |-> IF timer[c] > 0 THEN timer[c] - 1 ELSE 0]
    /\ UNCHANGED <<inputs, orch, ctype, crawl, rpc, gate, lastReq, reqs, out>>

Next ==
    \/ O_Token
    \/ O_TokenFails
    \/ O_ProbeResponse
    \/ O_GatherDone
    \/ O_GatherRaises
    \/ M_WaitReturns
    \/ M_Finish
    \/ Tick
    \/ \E c \in Objs :
         \/ R_Start(c)
         \/ R_TokenFails(c)
         \/ R_Token31(c)
         \/ R_Wake38(c)
         \/ R_TokenRenew(c)
         \/ R_Wake48(c)
         \/ Q_Start(c)
         \/ Q_WaitReturn(c)
         \/ Q_PageResponse(c)
         \/ Q_ExpandResponse(c)
         \/ Q_Written(c)
         \/ Q_Closed(c)

Spec == Init /\ [][Next]_vars


(* ---- a full enumeration over two registered classes ---- *)
\* listings of a single response
ShortListings == {l \in Listings : Len(l) = 1}

\* two registered classes, one response per listing, a provider whose tokens
\* outlive the margin
InitConcurrent ==
    InitRun({NoBackfills}, Registries(2), ShortListings, {"both"}, {MARGIN + 1})

\* the steps of a run that ends before the first renewal of a token is due
NextBeforeRenewal ==
    \/ O_Token
    \/ O_TokenFails
    \/ O_ProbeResponse
    \/ O_GatherDone
    \/ O_GatherRaises
    \/ M_WaitReturns
    \/ M_Finish
    \/ \E c \in Objs :
         \/ R_Start(c)
         \/ R_TokenFails(c)
         \/ R_Token31(c)
         \/ Q_Start(c)
         \/ Q_WaitReturn(c)
         \/ Q_PageResponse(c)
         \/ Q_ExpandResponse(c)
         \/ Q_Written(c)
         \/ Q_Closed(c)

SpecConcurrent == InitConcurrent /\ [][NextBeforeRenewal]_vars


(* ---- one crawler over records of every id-field shape ---- *)
\* one registered class, one response per listing, records and linked items
\* that carry the legacy id field, the current one, or both
InitParse ==
    InitRun({NoBackfills}, Registries(1), ShortListings, IdFields, Lifetimes)

SpecParse == InitParse /\ [][Next]_vars


(* ---- one crawler under a fair event loop ---- *)
InitFair ==
    InitRun({NoBackfills}, Registries(1), ShortListings, {"both"}, Lifetimes)

\* a renewal request answered with a token that has lifetime left
R_TokenRenewLive(c) == R_TokenRenew(c) /\ currentToken'[c].ttl > 0

\* the loop runs every callback that is ready and the clock advances; a token
\* request that does not fail is answered, and among the answers of the
\* renewal requests a token with lifetime left keeps coming
Fairness ==
    /\ WF_vars(Tick)
    /\ \A c \in Objs :
          /\ WF_vars(R_Start(c))
          /\ WF_vars(R_Token31(c))
          /\ WF_vars(R_Wake38(c))
          /\ WF_vars(R_Wake48(c))
          /\ SF_vars(R_TokenRenewLive(c))
          /\ WF_vars(Q_WaitReturn(c))

SpecFair == InitFair /\ [][Next]_vars /\ Fairness


(* ---- properties ---- *)
\* the crawling objects of the run
Crawlers == {c \in Objs : ctype[c] # "none"}

\* C1: every HTTP request a crawler issues (page fetch or owners / members
\* fetch) carries a token whose expiry is strictly later than the clock at the
\* moment the request leaves
C1_NoExpiredTokenSent ==
    \A c \in Objs : lastReq[c].kind # "none" => ~lastReq[c].expired

\* C2: at the moment a crawler issues any request, page fetch or sub-resource
\* fetch, the event of its refresher is set
C2_GateSetAtRequest ==
    \A c \in Objs : lastReq[c].kind # "none" => lastReq[c].gate

\* C3: whenever the event of a refresher is set, the token it exposes has an
\* expiry strictly in the future
C3_GateImpliesLiveToken ==
    \A c \in Objs : gate[c] => (currentToken[c].set /\ currentToken[c].ttl > 0)

\* C4: when the token provider fails on the initial acquisition of a refresher,
\* its crawler ends with a failure; it is not left suspended on the event that
\* nothing will set
C4_InitialFailureIsFatal ==
    \A c \in Objs : (rpc[c] = "dead" /\ ~currentToken[c].set) => cpc[c] # "wait"

\* C5: a crawler does not stop or fail after a response that carried a value
\* array and a continuation cursor, and every further page request targets the
\* cursor of the response before it, verbatim
C5_CursorFollowed ==
    \A c \in Crawlers :
       /\ (cpc[c] \in {"closing", "done", "failed"} /\ err[c] # "KeyError"
           /\ reqs[c] # <<>>)
             => LET last == Respond(c, reqs[c][Len(reqs[c])])
                IN ~(last.hasValue /\ HasNextLink(last))
       /\ \A k \in 1..(Len(reqs[c]) - 1) :
             reqs[c][k + 1] = Respond(c, reqs[c][k]).nextLink

RECURSIVE AllRecords(_, _)
\* the value arrays of pages k.. of a listing, concatenated
AllRecords(l, k) ==
    IF k > Len(l) THEN <<>>
    ELSE [i \in 1..l[k].n |-> Rec(k, i)] \o AllRecords(l, k + 1)

\* C6: when the crawler of a listing made of value pages stops, the records in
\* the sink of its class are the value arrays of the pages concatenated in API
\* order, each record once; a page is requested only after the records of the
\* pages before it were written
C6_NoLossNoDuplicate ==
    \A c \in Crawlers :
       /\ (cpc[c] \in {"done", "failed"} /\ err[c] # "KeyError"
           /\ \A k \in 1..Len(listing[c]) : listing[c][k].kind = "page")
             => sink[ctype[c]] = AllRecords(listing[c], 1)
       /\ \A k \in 2..Len(reqs[c]) :
             \A i \in 1..listing[c][k - 1].n :
                \E j \in 1..Len(sink[ctype[c]]) : sink[ctype[c]][j] = Rec(k - 1, i)

\* C7: a crawler whose first response is a page of N values without cursor
\* appends exactly N records and issues exactly one page request
C7_SinglePageNRecords ==
    \A c \in Crawlers :
       (cpc[c] = "done" /\ Len(listing[c]) = 1 /\ listing[c][1].kind = "page")
          => /\ Len(sink[ctype[c]]) = listing[c][1].n
             /\ Len(reqs[c]) = 1

\* C8: the whole response body is written as one record (single-object branch)
\* only for a response without value field; a response with an empty value
\* array writes nothing and counts nothing
C8_SingleObjectOnlyWithoutValue ==
    \A c \in Crawlers :
       /\ \A j \in 1..Len(sink[ctype[c]]) :
             sink[ctype[c]][j][2] = 0 => listing[c][sink[ctype[c]][j][1]].kind = "object"
       /\ (reqs[c] # <<>>
           /\ \A k \in 1..Len(reqs[c]) :
                 LET r == Respond(c, reqs[c][k]) IN r.hasValue /\ r.value = <<>>)
             => sink[ctype[c]] = <<>> /\ ctype[c] \notin aad_results

\* C9: whenever a crawler has stopped, completed or failed, its session is
\* closed and its refresh task is cancelled
C9_StopReleasesSessionAndRefresher ==
    \A c \in Crawlers :
       cpc[c] \in {"done", "failed"}
          => session[c] = "closed" /\ rpc[c] \in {"cancelled", "dead"}

\* C10: when the probe response carries an error payload, query_aad returns
\* normally, no crawler and no refresher exists, nothing is written and
\* nothing is counted
C10_ProbeErrorStartsNothing ==
    probeResp = "error"
       => /\ qpc = "returned"
          /\ \A c \in Objs : ctype[c] = "none" /\ cpc[c] = "none" /\ rpc[c] = "none"
          /\ \A cls \in ClassSet : sink[cls] = <<>>
          /\ aad_results = {}

\* the run ended after a probe that reported an error
C10_Witness == probeResp = "error" /\ mpc = "exit"

\* C11: with a backfill dictionary and a probe that succeeded, query_aad does
\* not fail and one crawler per (type, id) pair of the User, Group and
\* ServicePrincipal lists is launched and running; no other object exists
C11_BackfillLaunchesOnePerTarget ==
    (Truthy(backfills) /\ probeResp = "ok")
       => /\ qpc # "raised"
          /\ \A c \in Objs :
                IF c <= Len(BackfillClasses(backfills))
                THEN ctype[c] = BackfillClasses(backfills)[c]
                     /\ cpc[c] \notin {"none", "created"}
                ELSE ctype[c] = "none" /\ cpc[c] = "none"

\* C12: when one of the crawlers launched together has failed, no sibling is
\* cancelled or cut short: each is left to run to its own end
C12_SiblingsNotCancelled ==
    \A c \in Crawlers : \A s \in Crawlers :
       (s # c /\ cpc[s] = "failed") => cpc[c] # "cancelled"

\* C13: query_aad has not ended, normally or with a failure, and the coverage
\* summary has not been printed, while a crawler it launched is still running
C13_ReturnAfterAllStopped ==
    (qpc \in {"returned", "raised"} \/ summary.printed)
       => \A c \in Launched : cpc[c] \in {"done", "failed", "cancelled"}

\* the crawler of object c, left to run to its own end against its listing,
\* writes at least one record: its first response is no error payload and the
\* parse of its first record does not raise
WritesARecord(c) ==
    /\ listing[c] # <<>>
    /\ listing[c][1].kind # "error"
    /\ LET i == IF listing[c][1].n > 0 THEN 1 ELSE 0 IN
       Expands(ctype[c], FirstParty(c, 1, i)) = <<>>
          \/ ~SubscriptRaises(ctype[c], sub[c])

\* C14: the coverage a full enumeration ends with is fixed by the data served
\* and the behaviour of the token provider, whatever the interleaving of the
\* crawlers: with every token request answered, it is the set of the classes
\* whose crawler writes a record when it runs to its own end
C14_CoverageDeterministic ==
    (mpc = "exit" /\ \A c \in Crawlers : rpc[c] # "dead")
       => aad_results = {ctype[c] : c \in {d \in Crawlers : WritesARecord(d)}}

C16_EmptySubResourceIsEmptyList ==
    \A c \in Crawlers :
       sub[c] \in {"missing", "empty"}
          => /\ err[c] # "KeyError"
             /\ cpc[c] = "write"
                  => LET props == Expands(ctype[c], FirstParty(c, pg[c], idx[c]))
                     IN \A j \in 1..Len(props) : parsed[c][props[j]] = <<>>

\* C17: in every parse variant a record that carries only one of `objectId`
\* and `id` resolves to that field: the sub-resource request of the record
\* names it, and so does every linked item of the owners / members lists
C17_IdResolvedFromEitherField ==
    \A c \in Crawlers :
       /\ (cpc[c] = "expand"
           /\ RecordFields(c, pg[c], idx[c]) \in {"objectId", "id"})
             => lastReq[c].rid = RecordFields(c, pg[c], idx[c])
       /\ (cpc[c] = "write" /\ idf[c] \in {"objectId", "id"})
             => LET props == Expands(ctype[c], FirstParty(c, pg[c], idx[c]))
                IN \A j \in 1..Len(props) :
                      parsed[c][props[j]] \in {<<>>, <<idf[c]>>}

\* C18: once a crawler has completed and cancelled its refresh task, no step
\* changes the event or the position of the task (it requests no token), and
\* the exposed token stays the token it was: only the clock shortens its
\* remaining lifetime
C18_CancelledRefresherIsInert ==
    [][\A c \in Objs :
          cpc[c] = "done"
             => /\ gate'[c] = gate[c]
                /\ rpc'[c] = rpc[c]
                /\ currentToken'[c].set = currentToken[c].set
                /\ currentToken'[c].ttl \in
                      {currentToken[c].ttl, currentToken[c].ttl - 1}]_vars

\* a refresh task cancelled in the middle of a renewal, its event cleared,
\* while the run goes on
C18_Witness ==
    \E c \in Objs :
       /\ cpc[c] = "done" /\ rpc[c] = "cancelled"
       /\ ~gate[c] /\ currentToken[c].set
       /\ mpc = "wait"

\* C19: a refresh task that cleared its event for a renewal and is neither
\* cancelled nor ended by a failing token request sets the event again, and a
\* crawler suspended on the event proceeds
C19_RenewalEndsAndReadersProceed ==
    \A c \in Objs :
       /\ (rpc[c] \in {"get46", "sleep48", "get49"})
             ~> (gate[c] \/ rpc[c] \in {"cancelled", "dead"})
       /\ (cpc[c] = "wait")
             ~> (cpc[c] # "wait" \/ rpc[c] \in {"cancelled", "dead"})

\* a crawler is suspended on the event its refresh task cleared, and the
\* renewal has been answered with an expired token
C19_Witness ==
    \E c \in Objs : cpc[c] = "wait" /\ rpc[c] = "sleep48" /\ ~gate[c]

\* C20: with crawlers running concurrently, no step removes a class from the
\* coverage set, and a class is in it only when the sink holds at least one
\* record written under that class
C20_CoverageGrowsAndIsBacked ==
    [][/\ aad_results \subseteq aad_results'
       /\ \A cls \in aad_results' : sink'[cls] # <<>>]_vars

\* two crawlers of one run have both written and been counted
C20_Witness ==
    /\ Cardinality(aad_results) = 2
    /\ \A c \in Crawlers : sink[ctype[c]] # <<>>

====
